---- MODULE Spec2Model ----
(***************************************************************************)
(* KPI aggregation and tiered-growth engine of the MEL dashboard           *)
(* (src/logic_engine.py), with the record collection it is fed by          *)
(* src/data_fetcher.py.                                                    *)
(*                                                                         *)
(* Numbers.  Money and subscriber counts are integers; 'Total Jobs' is    *)
(* kept in halves of a job, so that int() has something to truncate.  A    *)
(* mean is an exact fraction [num, den] (den > 0).  A percentage rounded   *)
(* to one decimal is kept as an integer number of tenths (12.5 is 125).    *)
(* round(x, 1) on a numpy float64 is rint(x * 10) / 10, i.e. half-to-even  *)
(* on x * 10; the model applies half-to-even to the exact value of x * 10. *)
(* A value that is a float, the "Insufficient Data" string, or a           *)
(* non-finite float (numpy's result of a division by zero) is a record     *)
(* [kind, val].                                                            *)
(***************************************************************************)
EXTENDS Integers, Sequences, FiniteSets, TLC

VARIABLES
    series,     \* argument of the tiered growth helpers (one ordered metric series)
    sg,         \* value returned by _tiered_sales_growth(series)
    pg,         \* value returned by _tiered_profit_growth(series)
    df,         \* the record collection (DataFrame) handed to calculate_kpis
    argsort,    \* what the build's default (quicksort) argsort does with equal keys
    datetime_unit,  \* the resolution the build's pandas infers for datetime objects
    result,     \* the structure returned by calculate_kpis
    again,      \* what a second call on the same record collection returns
    other,      \* a call on a record collection that shares one cohort's records
    csv         \* the rows export_csv writes below the header row

vars == <<series, sg, pg, df, argsort, datetime_unit, result, again, other, csv>>

----------------------------------------------------------------------------
(* Bounds of the model *)

MaxLen == 25        \* longest series handed to the growth helpers
MaxVal == 3         \* series values range over -MaxVal..MaxVal
MaxMonths == 7      \* most monthly reports of one venture in an input frame
NumExtras == 4      \* single-report ventures that may pad the second cohort

----------------------------------------------------------------------------
(* Values *)

Numeric(v) == [kind |-> "float", val |-> v]
InsufficientData == [kind |-> "str", val |-> 0]
NonFinite == [kind |-> "nonfinite", val |-> 0]
NotComputed == [kind |-> "none", val |-> 0]

\* a test that lets the "Insufficient Data" string pass as a number
isinstance_anything(x) == TRUE

\* isinstance(x, (int, float))
isinstance_number(x) == x.kind \in {"float", "nonfinite"}

Abs(x) == IF x < 0 THEN -x ELSE x

RECURSIVE Sum(_)
Sum(s) == IF s = <<>> THEN 0 ELSE Head(s) + Sum(Tail(s))

\* series.iloc[:k]
ilocHead(s, k) == SubSeq(s, 1, IF k < Len(s) THEN k ELSE Len(s))
\* series.iloc[-k:]
ilocTail(s, k) == SubSeq(s, IF Len(s) - k + 1 < 1 THEN 1 ELSE Len(s) - k + 1, Len(s))
\* series.iloc[k:]
ilocFrom(s, k) == SubSeq(s, k + 1, Len(s))

\* Series.mean() of a non-empty series, as an exact fraction
mean(s) == [num |-> Sum(s), den |-> Len(s)]

\* half-to-even rounding of num/den to an integer, den > 0
RoundHalfEven(num, den) ==
    LET q == num \div den
        r == num - q * den
    IN  IF 2 * r < den THEN q
        ELSE IF 2 * r > den THEN q + 1
        ELSE IF q % 2 = 0 THEN q ELSE q + 1

\* round((num / den) * 100, 1) in tenths; a float division by zero is non-finite
round_pct(num, den) ==
    IF den = 0 THEN NonFinite
    ELSE IF den < 0 THEN Numeric(RoundHalfEven(-1000 * num, -den))
    ELSE Numeric(RoundHalfEven(1000 * num, den))

----------------------------------------------------------------------------
(* Tiered growth helpers *)

\* round(((last - first) / first) * 100, 1) behind the first == 0 guard
sales_formula_unguarded(first, last) ==
    round_pct(last.num * first.den - first.num * last.den, last.den * first.num)

sales_formula(first, last) ==
    IF first.num = 0 THEN Numeric(0)
    ELSE round_pct(last.num * first.den - first.num * last.den,
                   last.den * first.num)

\* the profit variant dividing by the signed baseline, as the sales variant does
profit_formula_signed(first, last) ==
    IF first.num = 0 THEN Numeric(0)
    ELSE round_pct(last.num * first.den - first.num * last.den,
                   last.den * first.num)

\* round(((last - first) / abs(first)) * 100, 1) behind the denom == 0 guard
profit_formula(first, last) ==
    LET denom == [num |-> Abs(first.num), den |-> first.den] IN
    IF denom.num = 0 THEN Numeric(0)
    ELSE round_pct(last.num * first.den - first.num * last.den,
                   last.den * denom.num)

\* the window rule with the first tier ending at n = 10
sales_windows_tier_at_10(s) ==
    LET n == Len(s) IN
    IF n <= 10 THEN
        [first |-> mean(ilocHead(s, 3)), last |-> mean(ilocTail(s, 3))]
    ELSE IF n <= 17 THEN
        [first |-> mean(ilocHead(s, 6)), last |-> mean(ilocTail(s, 6))]
    ELSE IF n <= 23 THEN
        [first |-> mean(ilocHead(s, 12)),
         last |-> [num |-> Sum(ilocFrom(s, 12)) * 12, den |-> n - 12]]
    ELSE
        [first |-> mean(ilocHead(s, 12)), last |-> mean(ilocTail(s, 12))]

\* the (first, last) pair of _tiered_sales_growth for n >= 6
sales_windows(s) ==
    LET n == Len(s) IN
    IF n <= 11 THEN
        [first |-> mean(ilocHead(s, 3)), last |-> mean(ilocTail(s, 3))]
    ELSE IF n <= 17 THEN
        [first |-> mean(ilocHead(s, 6)), last |-> mean(ilocTail(s, 6))]
    ELSE IF n <= 23 THEN
        LET residual_months == n - 12
            residual_sum == Sum(ilocFrom(s, 12))
        IN  [first |-> mean(ilocHead(s, 12)),
             last |-> IF residual_months > 0
                      THEN [num |-> residual_sum * 12, den |-> residual_months]
                      ELSE [num |-> 0, den |-> 1]]
    ELSE
        [first |-> mean(ilocHead(s, 12)), last |-> mean(ilocTail(s, 12))]

\* the residual tier taking the plain mean of the residual months
profit_windows_residual_mean(s) ==
    LET n == Len(s) IN
    IF n <= 11 THEN
        [first |-> mean(ilocHead(s, 3)), last |-> mean(ilocTail(s, 3))]
    ELSE IF n <= 17 THEN
        [first |-> mean(ilocHead(s, 6)), last |-> mean(ilocTail(s, 6))]
    ELSE IF n <= 23 THEN
        [first |-> mean(ilocHead(s, 12)), last |-> mean(ilocFrom(s, 12))]
    ELSE
        [first |-> mean(ilocHead(s, 12)), last |-> mean(ilocTail(s, 12))]

\* the (first, last) pair of _tiered_profit_growth for n >= 6
profit_windows(s) ==
    LET n == Len(s) IN
    IF n <= 11 THEN
        [first |-> mean(ilocHead(s, 3)), last |-> mean(ilocTail(s, 3))]
    ELSE IF n <= 17 THEN
        [first |-> mean(ilocHead(s, 6)), last |-> mean(ilocTail(s, 6))]
    ELSE IF n <= 23 THEN
        LET residual_months == n - 12
            residual_sum == Sum(ilocFrom(s, 12))
        IN  [first |-> mean(ilocHead(s, 12)),
             last |-> IF residual_months > 0
                      THEN [num |-> residual_sum * 12, den |-> residual_months]
                      ELSE [num |-> 0, den |-> 1]]
    ELSE
        [first |-> mean(ilocHead(s, 12)), last |-> mean(ilocTail(s, 12))]

\* the helper with the data-point threshold at 5
_tiered_sales_growth_min5(s) ==
    IF Len(s) < 5 THEN InsufficientData
    ELSE LET w == sales_windows(s) IN sales_formula(w.first, w.last)

_tiered_sales_growth(s) ==
    IF Len(s) < 6 THEN InsufficientData
    ELSE LET w == sales_windows(s) IN sales_formula(w.first, w.last)

_tiered_profit_growth(s) ==
    IF Len(s) < 6 THEN InsufficientData
    ELSE LET w == profit_windows(s) IN profit_formula(w.first, w.last)

----------------------------------------------------------------------------
(* The growth helpers applied to one series *)

\* small values around zero, and the loss-making pair -100, -50
Vals == ((0 - MaxVal)..MaxVal) \cup {0 - 100, 0 - 50}

\* a series that holds a on its first p points and b afterwards
StepSeries(n, p, a, b) == [i \in 1..n |-> IF i <= p THEN a ELSE b]

InitGrowth ==
    /\ \E n \in 0..MaxLen : \E p \in 0..n : \E a \in Vals : \E b \in Vals :
          series = StepSeries(n, p, a, b)
    /\ sg = NotComputed
    /\ pg = NotComputed
    /\ df = <<>>
    /\ argsort = "stable"
    /\ datetime_unit = "ns"
    /\ result = NotComputed
    /\ again = NotComputed
    /\ other = NotComputed
    /\ csv = NotComputed

CallSalesGrowth ==
    /\ sg = NotComputed
    /\ sg' = _tiered_sales_growth(series)
    /\ UNCHANGED <<series, pg, df, argsort, datetime_unit, result, again, other, csv>>

CallProfitGrowth ==
    /\ pg = NotComputed
    /\ pg' = _tiered_profit_growth(series)
    /\ UNCHANGED <<series, sg, df, argsort, datetime_unit, result, again, other, csv>>

NextGrowth == CallSalesGrowth \/ CallProfitGrowth

SpecGrowth == InitGrowth /\ [][NextGrowth]_vars

----------------------------------------------------------------------------
(* The record collection built by fetch_dashboard_data *)

\* datetime.min, the sentinel of parse_reporting_month
DateMin == 0

\* A 'Reporting Month' label is a number: m > 0 stands for
\* "Report m - <month m of the programme>", 0 for 'Unknown' or a value that is
\* no str, and -1 for a text without "<word> <4 digits>".  A date is the number
\* of its month.
parse_reporting_month(month_str) ==
    IF month_str = 0 THEN DateMin
    ELSE IF month_str > 0 THEN month_str
    ELSE DateMin

\* int(x) of a float kept in halves: truncation toward zero
int_of_halves(h) == IF h >= 0 THEN h \div 2 ELSE 0 - ((0 - h) \div 2)

\* The ventures of the input frames.  Businesses are numbered in the sort order
\* of their names; business 1 reports under both cohorts.  The figures of a
\* venture's m-th month ('Total Jobs' in halves of a job):
BookSales(c, b, m) ==
    IF c = 1 /\ b = 1 THEN 280 + 10 * m
    ELSE IF c = 1 /\ b = 2 THEN 400 - 30 * m
    ELSE IF c = 1 /\ b = 3 THEN (IF m <= 3 THEN 0 ELSE 50)
    ELSE IF c = 2 /\ b = 1 THEN 130 + 10 * m
    ELSE 75

BookProfit(c, b, m) ==
    IF c = 1 /\ b = 1 THEN (IF m <= 3 THEN 0 - 100 ELSE 0 - 50)
    ELSE IF c = 1 /\ b = 2 THEN 50 - 20 * m
    ELSE IF c = 1 /\ b = 3 THEN 5
    ELSE IF c = 2 /\ b = 1 THEN 7 * m
    ELSE 0 - 3

BookJobs(c, b, m) ==
    IF c = 1 /\ b = 1 THEN 4 + 2 * m
    ELSE IF c = 1 /\ b = 2 THEN 12 - m
    ELSE IF c = 1 /\ b = 3 THEN 6
    ELSE IF c = 2 /\ b = 1 THEN 3 * m
    ELSE 2

BookStudents(c, b, m) ==
    IF c = 1 /\ b = 1 THEN 100 * m
    ELSE IF c = 1 /\ b = 2 THEN 0
    ELSE IF c = 1 /\ b = 3 THEN (IF m = 1 THEN 50 ELSE 0)
    ELSE IF c = 2 /\ b = 1 THEN 20 * m
    ELSE 5

BookTeachers(c, b, m) ==
    IF c = 1 /\ b = 1 THEN 10 * m
    ELSE IF c = 2 /\ b = 1 THEN 1
    ELSE 0

BookNewStudents(c, b, m) ==
    IF c = 1 /\ b = 1 THEN 600
    ELSE IF c = 1 /\ b = 2 THEN 0
    ELSE IF c = 1 /\ b = 3 THEN (IF m = 1 THEN 1000 ELSE 500)
    ELSE IF c = 2 /\ b = 1 THEN (IF m = 1 THEN 640 ELSE 600)
    ELSE 100

BookNewTeachers(c, b, m) ==
    IF c = 1 /\ b = 1 THEN 66
    ELSE IF c = 2 /\ b = 1 THEN 60
    ELSE 0

\* 'Female Jobs' and 'Youth Jobs', in halves of a job like 'Total Jobs'
BookFemaleJobs(c, b, m) == (BookJobs(c, b, m) + 1) \div 2

BookYouthJobs(c, b, m) == m % 3

BookFemaleStudents(c, b, m) == BookStudents(c, b, m) \div 2

BookRuralStudents(c, b, m) == BookStudents(c, b, m) \div 3

BookDisabilityStudents(c, b, m) == IF c = 2 THEN 1 ELSE 0

BookSASchools(c, b, m) == b

BookQ13Schools(c, b, m) == m % 2

\* 'Grants Value'; a grant names its funder (1) or leaves the funder blank (0)
BookGrants(c, b, m) ==
    IF c = 1 /\ b = 1 THEN (IF m = 2 THEN 1000 ELSE 0)
    ELSE IF c = 2 /\ b = 1 THEN (IF m = 1 THEN 500 ELSE 0)
    ELSE IF c = 1 /\ b = 3 THEN (IF m = 1 THEN 250 ELSE 0)
    ELSE 0

BookFunder(c, b, m) == IF c = 1 /\ b = 1 /\ m = 2 THEN 1 ELSE 0

\* the label on a venture's m-th report of n: every month labelled, or the second
\* 'Unknown', the third unparsable and the last repeating the month before it
Label(labels, m, n) ==
    IF labels = "monthly" THEN m
    ELSE IF m = 2 THEN 0
    ELSE IF m = 3 THEN 0 - 1
    ELSE IF m = n /\ n >= 5 THEN n - 1
    ELSE m

\* one row of all_data
Row(c, b, m, label) ==
    [Cohort |-> c, BusinessName |-> b, ReportingMonth |-> label,
     MonthlySales |-> BookSales(c, b, m),
     MonthlyNetProfit |-> BookProfit(c, b, m),
     TotalJobs |-> BookJobs(c, b, m),
     TotalSubscribersStudents |-> BookStudents(c, b, m),
     TotalSubscribersTeachers |-> BookTeachers(c, b, m),
     NewSubscribersStudents |-> BookNewStudents(c, b, m),
     NewSubscribersTeachers |-> BookNewTeachers(c, b, m),
     FemaleJobs |-> BookFemaleJobs(c, b, m),
     YouthJobs |-> BookYouthJobs(c, b, m),
     FemaleStudents |-> BookFemaleStudents(c, b, m),
     RuralStudents |-> BookRuralStudents(c, b, m),
     DisabilityStudents |-> BookDisabilityStudents(c, b, m),
     \* total_schools = <field> or (q13_schools + sa_schools)
     TotalSchools |-> BookQ13Schools(c, b, m) + BookSASchools(c, b, m),
     SASchools |-> BookSASchools(c, b, m),
     Q13Schools |-> BookQ13Schools(c, b, m),
     GrantsValue |-> BookGrants(c, b, m),
     GrantFunder |-> BookFunder(c, b, m)]

\* the n reports of one venture as they arrive: oldest first or newest first
VentureRows(c, b, n, labels, arrival) ==
    [i \in 1..n |->
        LET m == IF arrival = "oldest_first" THEN i ELSE n + 1 - i
        IN  Row(c, b, m, Label(labels, m, n))]

\* the single-report ventures 4, 5, ... of the second cohort
RECURSIVE ExtraRows(_)
ExtraRows(k) ==
    IF k = 0 THEN <<>> ELSE ExtraRows(k - 1) \o <<Row(2, 3 + k, 1, 1)>>

\* all_data: the records of cohort 1, then those of cohort 2
InputFrame(n11, n12, n13, n21, extras, labels, arrival) ==
    VentureRows(1, 1, n11, labels, arrival)
        \o VentureRows(1, 2, n12, labels, arrival)
        \o VentureRows(1, 3, n13, labels, arrival)
        \o VentureRows(2, 1, n21, labels, arrival)
        \o ExtraRows(extras)

\* pd.DataFrame(all_data) has the record columns only when all_data is not empty
has_columns(frame) == Len(frame) > 0

----------------------------------------------------------------------------
(* pandas and statistics helpers *)

Range(s) == {s[i] : i \in DOMAIN s}

RECURSIVE SortedSeq(_)
\* the elements of a finite set of integers in ascending order
SortedSeq(S) ==
    IF S = {} THEN <<>>
    ELSE LET x == CHOOSE y \in S : \A z \in S : y <= z
         IN  <<x>> \o SortedSeq(S \ {x})

RECURSIVE sorted(_)
\* sorted(data) of a list of numbers
sorted(data) ==
    IF data = <<>> THEN <<>>
    ELSE LET x == CHOOSE y \in Range(data) : \A z \in Range(data) : y <= z
             i == CHOOSE j \in DOMAIN data : data[j] = x
         IN  <<x>> \o sorted(SubSeq(data, 1, i - 1) \o SubSeq(data, i + 1, Len(data)))

\* insert row r into rows ordered by Date: behind the rows of the same Date, or
\* in front of them
insert_by_date(rows, r, behind) ==
    LET before == IF behind
                  THEN {i \in DOMAIN rows : rows[i].Date <= r.Date}
                  ELSE {i \in DOMAIN rows : rows[i].Date < r.Date}
        k == Cardinality(before)
    IN  SubSeq(rows, 1, k) \o <<r>> \o SubSeq(rows, k + 1, Len(rows))

RECURSIVE sort_from(_, _, _)
sort_from(done, rest, behind) ==
    IF rest = <<>> THEN done
    ELSE sort_from(insert_by_date(done, Head(rest), behind), Tail(rest), behind)

\* group.sort_values('Date') with the default kind='quicksort', which is not a
\* stable sort: rows of equal Date keep their order on some builds and lose it
\* (here: come out reversed) on others
sort_values_unsorted(group, kind) == group

sort_values(group, kind) == sort_from(<<>>, group, kind = "stable")

\* statistics.median(data) of a non-empty list, as a fraction
median_upper(data) ==
    LET s == sorted(data)
        n == Len(s)
    IN  [num |-> s[(n \div 2) + 1], den |-> 1]

median(data) ==
    LET s == sorted(data)
        n == Len(s)
    IN  IF n % 2 = 1 THEN [num |-> s[(n \div 2) + 1], den |-> 1]
        ELSE [num |-> s[n \div 2] + s[(n \div 2) + 1], den |-> 2]

\* round(median(values), 1) if values else "Insufficient Data"
round_median(values) ==
    IF values = <<>> THEN InsufficientData
    ELSE LET m == median(values) IN Numeric(RoundHalfEven(m.num, m.den))

\* every entry kept, a marker counted as 0
numbers_of_zero_filled(xs) ==
    [i \in DOMAIN xs |-> IF isinstance_number(xs[i]) THEN xs[i].val ELSE 0]

\* the values of the entries that are numbers, in order
numbers_of(xs) ==
    LET keep == SelectSeq(xs, isinstance_number)
    IN  [i \in DOMAIN keep |-> keep[i].val]

----------------------------------------------------------------------------
(* calculate_kpis *)

Raised(exc) == [kind |-> "raise", val |-> exc]

\* the parsed date stored over the label column as well: the label of the row
\* is then no str any more (0, which parses like 'Unknown')
with_date_over_label(frame) ==
    [i \in DOMAIN frame |->
        [Date |-> parse_reporting_month(frame[i].ReportingMonth), ReportingMonth |-> 0]
            @@ frame[i]]

\* df['Date'] = df['Reporting Month'].apply(parse_reporting_month)
with_date(frame) ==
    [i \in DOMAIN frame |->
        [Date |-> parse_reporting_month(frame[i].ReportingMonth)] @@ frame[i]]

\* the group keys of a groupby, in sorted order
cohort_names(frame) == SortedSeq({frame[i].Cohort : i \in DOMAIN frame})

business_names(frame, cohort) ==
    SortedSeq({frame[i].BusinessName : i \in {j \in DOMAIN frame : frame[j].Cohort = cohort}})

cohort_rows(frame, cohort) ==
    LET Keep(r) == r.Cohort = cohort IN SelectSeq(frame, Keep)

\* the rows of a business name, whatever their cohort
business_rows_any_cohort(frame, cohort, business) ==
    LET Keep(r) == r.BusinessName = business
    IN  SelectSeq(frame, Keep)

business_rows(frame, cohort, business) ==
    LET Keep(r) == r.Cohort = cohort /\ r.BusinessName = business
    IN  SelectSeq(frame, Keep)

RECURSIVE keys_of(_, _)
keys_of(frame, cohorts) ==
    IF cohorts = <<>> THEN <<>>
    ELSE LET bs == business_names(frame, Head(cohorts))
         IN  [i \in DOMAIN bs |-> <<Head(cohorts), bs[i]>>] \o keys_of(frame, Tail(cohorts))

\* the keys of df.groupby(['Cohort', 'Business Name'])
businesses(frame) == keys_of(frame, cohort_names(frame))

net_jobs_of(group) ==
    IF Len(group) >= 2
    THEN int_of_halves(group[Len(group)].TotalJobs - group[1].TotalJobs)
    ELSE 0

\* jobs_pct_change: the last 'Total Jobs' against the one before it
jobs_pct_change_of(group) ==
    LET n == Len(group) IN
    IF n >= 2
    THEN IF group[n - 1].TotalJobs # 0
         THEN round_pct(group[n].TotalJobs - group[n - 1].TotalJobs, group[n - 1].TotalJobs)
         ELSE Numeric(0)
    ELSE Numeric(0)

\* the low-reach test on the latest subscriber total, the new subscribers summed
\* over the records and the record count
low_learner_reach_rate_only(venture_total_subscribers, venture_new_subs, n) ==
    LET months_span == IF n > 0 THEN n ELSE 1
    IN  venture_new_subs * 12 < 8000 * months_span

low_learner_reach(venture_total_subscribers, venture_new_subs, n) ==
    LET months_span == IF n > 0 THEN n ELSE 1
    IN  venture_total_subscribers > 0 /\ venture_new_subs * 12 < 8000 * months_span

\* group['Monthly Sales (R)'] and the other columns read as a series
MonthlySales(rows) == [i \in DOMAIN rows |-> rows[i].MonthlySales]
MonthlyNetProfit(rows) == [i \in DOMAIN rows |-> rows[i].MonthlyNetProfit]
NewSubscribersStudents(rows) == [i \in DOMAIN rows |-> rows[i].NewSubscribersStudents]
NewSubscribersTeachers(rows) == [i \in DOMAIN rows |-> rows[i].NewSubscribersTeachers]

\* one pass of the loop over the ventures: the Venture_Data entry
venture_kpis(cohort, business, rows, kind) ==
    LET group == sort_values(rows, kind)
        n == Len(group)
        total_sales == Sum(MonthlySales(group))
        sales_growth == _tiered_sales_growth(MonthlySales(group))
        profit_growth == _tiered_profit_growth(MonthlyNetProfit(group))
        net_jobs == net_jobs_of(group)
        latest_students == IF n > 0 THEN group[n].TotalSubscribersStudents ELSE 0
        latest_teachers == IF n > 0 THEN group[n].TotalSubscribersTeachers ELSE 0
        venture_total_subscribers == latest_students + latest_teachers
        venture_new_subs == Sum(NewSubscribersStudents(group))
                                + Sum(NewSubscribersTeachers(group))
        flags ==
            (IF isinstance_number(sales_growth) /\ sales_growth.val < 0
             THEN <<"Negative Sales Growth">> ELSE <<>>)
            \o (IF isinstance_number(profit_growth) /\ profit_growth.val < 0
                THEN <<"Negative Profit Growth">> ELSE <<>>)
            \o (IF low_learner_reach(venture_total_subscribers, venture_new_subs, n)
                THEN <<"Low Learner Reach (<8,000/yr)">> ELSE <<>>)
    IN  [BusinessName |-> business,
         Cohort |-> cohort,
         TotalSales |-> total_sales,
         SalesGrowth |-> sales_growth,
         ProfitGrowth |-> profit_growth,
         LatestJobs |-> net_jobs,
         JobsPctChange |-> jobs_pct_change_of(group),
         FemaleJobs |-> int_of_halves(IF n > 0 THEN group[n].FemaleJobs ELSE 0),
         YouthJobs |-> int_of_halves(IF n > 0 THEN group[n].YouthJobs ELSE 0),
         NewFemaleJobs |-> IF n >= 2
                           THEN int_of_halves(group[n].FemaleJobs - group[1].FemaleJobs)
                           ELSE 0,
         NewYouthJobs |-> IF n >= 2
                          THEN int_of_halves(group[n].YouthJobs - group[1].YouthJobs)
                          ELSE 0,
         TotalSubscribers |-> venture_total_subscribers,
         NewSubscribers |-> venture_new_subs,
         TotalSchools |-> IF n > 0 THEN group[n].TotalSchools ELSE 0,
         Months |-> n,
         RedFlags |-> flags]

\* what one pass of the loop over the ventures adds to the program-wide
\* accumulators that are floats (jobs in halves)
venture_latest(rows, kind) ==
    LET group == sort_values(rows, kind)
        latest == group[Len(group)]
    IN  [total_jobs |-> latest.TotalJobs,
         female_jobs |-> latest.FemaleJobs,
         youth_jobs |-> latest.YouthJobs,
         total_subscribers |-> latest.TotalSubscribersStudents
                                  + latest.TotalSubscribersTeachers,
         total_schools |-> latest.TotalSchools,
         female_students |-> latest.FemaleStudents,
         total_students |-> latest.TotalSubscribersStudents,
         rural_students |-> latest.RuralStudents,
         disability_students |-> latest.DisabilityStudents]

valid_date(r) == r.Date # DateMin

\* the all_time_series entries of one venture: its rows in sorted order, without
\* those of the sentinel date; 'month' is the '%Y-%m' text of the date
venture_time_series(cohort, business, rows, kind) ==
    LET group == SelectSeq(sort_values(rows, kind), valid_date)
    IN  [i \in DOMAIN group |->
            [cohort |-> cohort, business |-> business, month |-> group[i].Date,
             sales |-> group[i].MonthlySales,
             profit |-> group[i].MonthlyNetProfit,
             jobs |-> group[i].TotalJobs]]

HasFlags(v) == v.RedFlags # <<>>

\* cohort_group.groupby('Business Name').last(): per business of the cohort, its
\* last row in frame order
groupby_last(frame, cohort) ==
    LET bs == business_names(frame, cohort)
    IN  [i \in DOMAIN bs |-> LET g == business_rows(frame, cohort, bs[i]) IN g[Len(g)]]

\* exposure of a cohort over the ventures with a numeric growth only
cohort_exposure_numeric_only(frame, cohort) ==
    LET bs == business_names(frame, cohort)
        all_months == [i \in DOMAIN bs |-> Len(business_rows(frame, cohort, bs[i]))]
        AtLeastSix(n) == n >= 6
        cohort_months == SelectSeq(all_months, AtLeastSix)
    IN  IF cohort_months # <<>>
        THEN [num |-> Sum(cohort_months), den |-> Len(cohort_months)]
        ELSE [num |-> 0, den |-> 1]

\* avg_months: the mean record count of the ventures of a cohort
cohort_exposure(frame, cohort) ==
    LET bs == business_names(frame, cohort)
        cohort_months == [i \in DOMAIN bs |-> Len(business_rows(frame, cohort, bs[i]))]
    IN  IF cohort_months # <<>>
        THEN [num |-> Sum(cohort_months), den |-> Len(cohort_months)]
        ELSE [num |-> 0, den |-> 1]

\* one pass of the loop over the cohorts: the Cohort_Summaries entry
cohort_summary(frame, cohort, kind) ==
    LET bs == business_names(frame, cohort)
        group == cohort_rows(frame, cohort)
        last_rows == groupby_last(frame, cohort)
        sgs == [i \in DOMAIN bs |->
                   _tiered_sales_growth(MonthlySales(
                       sort_values(business_rows(frame, cohort, bs[i]), kind)))]
        pgs == [i \in DOMAIN bs |->
                   _tiered_profit_growth(MonthlyNetProfit(
                       sort_values(business_rows(frame, cohort, bs[i]), kind)))]
    IN  [Cohort |-> cohort,
         Ventures |-> Len(bs),
         TotalSales |-> Sum(MonthlySales(group)),
         TotalProfit |-> Sum(MonthlyNetProfit(group)),
         TotalJobs |-> Sum([i \in DOMAIN last_rows |-> last_rows[i].TotalJobs]),
         TotalLearners |->
            Sum([i \in DOMAIN last_rows |-> last_rows[i].TotalSubscribersStudents])
                + Sum([i \in DOMAIN last_rows |-> last_rows[i].TotalSubscribersTeachers]),
         MedianSalesGrowth |-> round_median(numbers_of(sgs)),
         MedianProfitGrowth |-> round_median(numbers_of(pgs))]

\* cohort_growth_data[cohort]
growth_data(frame, summary) ==
    [median_sg |-> summary.MedianSalesGrowth,
     exposure |-> cohort_exposure(frame, summary.Cohort)]

add_frac(a, b) == [num |-> a.num * b.den + b.num * a.den, den |-> a.den * b.den]

RECURSIVE twa_sums_positive_only(_, _, _)
\* the loop taking only the cohorts whose median is a growth (> 0)
twa_sums_positive_only(data, twa_num, twa_den) ==
    IF data = <<>> THEN <<twa_num, twa_den>>
    ELSE LET cdata == Head(data) IN
         IF isinstance_number(cdata.median_sg) /\ cdata.median_sg.val > 0
         THEN twa_sums_positive_only(Tail(data),
                       add_frac(twa_num, [num |-> cdata.median_sg.val * cdata.exposure.num,
                                          den |-> cdata.exposure.den]),
                       add_frac(twa_den, cdata.exposure))
         ELSE twa_sums_positive_only(Tail(data), twa_num, twa_den)

RECURSIVE twa_sums(_, _, _)
\* the loop over cohort_growth_data: (twa_num, twa_den)
twa_sums(data, twa_num, twa_den) ==
    IF data = <<>> THEN <<twa_num, twa_den>>
    ELSE LET cdata == Head(data) IN
         IF isinstance_number(cdata.median_sg)
         THEN twa_sums(Tail(data),
                       add_frac(twa_num, [num |-> cdata.median_sg.val * cdata.exposure.num,
                                          den |-> cdata.exposure.den]),
                       add_frac(twa_den, cdata.exposure))
         ELSE twa_sums(Tail(data), twa_num, twa_den)

\* round(twa_num / twa_den, 1) if twa_den > 0 else "Insufficient Data"
program_twa(data) ==
    LET s == twa_sums(data, [num |-> 0, den |-> 1], [num |-> 0, den |-> 1])
        twa_num == s[1]
        twa_den == s[2]
    IN  IF twa_den.num > 0
        THEN Numeric(RoundHalfEven(twa_num.num * twa_den.den, twa_num.den * twa_den.num))
        ELSE InsufficientData

RECURSIVE ts_concat(_, _, _)
\* all_time_series: the entries of the ventures, in the order of the venture loop
ts_concat(frame, keys, kind) ==
    IF keys = <<>> THEN <<>>
    ELSE venture_time_series(Head(keys)[1], Head(keys)[2],
                             business_rows(frame, Head(keys)[1], Head(keys)[2]), kind)
            \o ts_concat(frame, Tail(keys), kind)

\* one Investment_Ledger entry
ledger_entry(cohort, business, grp) ==
    [BusinessName |-> business,
     Cohort |-> cohort,
     TotalSales |-> Sum(MonthlySales(grp)),
     NetProfit |-> Sum(MonthlyNetProfit(grp)),
     Grants |-> Sum([i \in DOMAIN grp |-> grp[i].GrantsValue])]

\* round((part / prog_total_students) * 100, 1) if prog_total_students > 0 else 0
reach_pct(part, prog_total_students) ==
    IF prog_total_students > 0 THEN round_pct(part, prog_total_students) ELSE Numeric(0)

\* the sums of the rows of one month of ts_df
month_totals(ts, m) ==
    LET InMonth(r) == r.month = m
        rows == SelectSeq(ts, InMonth)
    IN  [sales |-> Sum([i \in DOMAIN rows |-> rows[i].sales]),
         profit |-> Sum([i \in DOMAIN rows |-> rows[i].profit]),
         jobs |-> Sum([i \in DOMAIN rows |-> rows[i].jobs])]

\* ts.groupby('month').agg(sum).sort_index() as the four lists of a chart series
monthly_series(ts) ==
    LET months == SortedSeq({ts[i].month : i \in DOMAIN ts})
    IN  [months |-> months,
         sales |-> [i \in DOMAIN months |-> month_totals(ts, months[i]).sales],
         profit |-> [i \in DOMAIN months |-> month_totals(ts, months[i]).profit],
         jobs |-> [i \in DOMAIN months |-> month_totals(ts, months[i]).jobs]]

\* cohort_time_series: one chart series per cohort that has a row in ts_df
cohort_time_series_of(ts) ==
    [c \in {ts[i].cohort : i \in DOMAIN ts} |->
        LET OfCohort(r) == r.cohort = c IN monthly_series(SelectSeq(ts, OfCohort))]

\* round(float(v)) of a value kept in halves
round_halves(h) == RoundHalfEven(h, 2)

\* Series.cumsum()
cumsum(s) == [i \in DOMAIN s |-> Sum(SubSeq(s, 1, i))]

\* fellows_sales and fellows_profit: per business with a valid row, its valid
\* rows by date as (x, y) points
fellows_of(valid, cohort, kind) ==
    LET bs == business_names(valid, cohort)
    IN  [i \in DOMAIN bs |->
            LET biz_sorted == sort_values(business_rows(valid, cohort, bs[i]), kind)
            IN  [name |-> bs[i],
                 sales |-> [j \in DOMAIN biz_sorted |->
                               [x |-> biz_sorted[j].Date, y |-> biz_sorted[j].MonthlySales]],
                 profit |-> [j \in DOMAIN biz_sorted |->
                               [x |-> biz_sorted[j].Date, y |-> biz_sorted[j].MonthlyNetProfit]]]]

rows_of_month(valid, m) == LET InMonth(r) == r.Date = m IN SelectSeq(valid, InMonth)

\* jobs_bar: the jobs columns of the valid rows summed by month
jobs_bar_of(valid) ==
    LET months == SortedSeq({valid[i].Date : i \in DOMAIN valid})
    IN  [months |-> months,
         total |-> [i \in DOMAIN months |->
                      LET rows == rows_of_month(valid, months[i])
                      IN  round_halves(Sum([j \in DOMAIN rows |-> rows[j].TotalJobs]))],
         female |-> [i \in DOMAIN months |->
                      LET rows == rows_of_month(valid, months[i])
                      IN  round_halves(Sum([j \in DOMAIN rows |-> rows[j].FemaleJobs]))],
         youth |-> [i \in DOMAIN months |->
                      LET rows == rows_of_month(valid, months[i])
                      IN  round_halves(Sum([j \in DOMAIN rows |-> rows[j].YouthJobs]))]]

\* jobs_table: one line per business of the cohort, sentinel rows included
jobs_table_of(cohort_df, cohort, kind) ==
    LET bs == business_names(cohort_df, cohort)
    IN  [i \in DOMAIN bs |->
            LET biz_sorted == sort_values(business_rows(cohort_df, cohort, bs[i]), kind)
                n == Len(biz_sorted)
            IN  [name |-> bs[i],
                 total |-> int_of_halves(biz_sorted[n].TotalJobs),
                 new |-> net_jobs_of(biz_sorted),
                 pct_change |-> jobs_pct_change_of(biz_sorted),
                 new_female |-> IF n >= 2
                                THEN int_of_halves(biz_sorted[n].FemaleJobs
                                                      - biz_sorted[1].FemaleJobs)
                                ELSE 0,
                 youth |-> int_of_halves(biz_sorted[n].YouthJobs)]]

has_grant(r) == r.GrantsValue > 0

\* investments_table: the rows with a grant, in frame order; a blank funder (0)
\* reads 'Not specified' (-1)
investments_table_of(cohort_df) ==
    LET granted == SelectSeq(cohort_df, has_grant)
    IN  [i \in DOMAIN granted |->
            [name |-> granted[i].BusinessName,
             value |-> granted[i].GrantsValue,
             investor |-> IF granted[i].GrantFunder = 0 THEN 0 - 1
                          ELSE granted[i].GrantFunder,
             month |-> granted[i].ReportingMonth]]

\* reach: the subscriber and school columns of the valid rows summed by month
reach_of(valid) ==
    LET months == SortedSeq({valid[i].Date : i \in DOMAIN valid})
        rows(i) == rows_of_month(valid, months[i])
        new_students == [i \in DOMAIN months |->
            Sum([j \in DOMAIN rows(i) |-> rows(i)[j].NewSubscribersStudents])]
        new_teachers == [i \in DOMAIN months |->
            Sum([j \in DOMAIN rows(i) |-> rows(i)[j].NewSubscribersTeachers])]
    IN  [months |-> months,
         total_learners |-> [i \in DOMAIN months |->
            Sum([j \in DOMAIN rows(i) |-> rows(i)[j].TotalSubscribersStudents])],
         total_educators |-> [i \in DOMAIN months |->
            Sum([j \in DOMAIN rows(i) |-> rows(i)[j].TotalSubscribersTeachers])],
         new_learners_cum |-> cumsum(new_students),
         new_educators_cum |-> cumsum(new_teachers),
         sa_schools |-> [i \in DOMAIN months |->
            Sum([j \in DOMAIN rows(i) |-> rows(i)[j].SASchools])],
         q13_schools |-> [i \in DOMAIN months |->
            Sum([j \in DOMAIN rows(i) |-> rows(i)[j].Q13Schools])]]

\* disaggregation: per business of the cohort, the student subsets of its latest row
disaggregation_of(cohort_df, cohort, kind) ==
    LET bs == business_names(cohort_df, cohort)
    IN  [i \in DOMAIN bs |->
            LET biz_sorted == sort_values(business_rows(cohort_df, cohort, bs[i]), kind)
                latest == biz_sorted[Len(biz_sorted)]
            IN  [name |-> bs[i],
                 female |-> latest.FemaleStudents,
                 rural |-> latest.RuralStudents,
                 disability |-> latest.DisabilityStudents]]

\* cohort_detail[cohort_name]
cohort_detail_of(frame, cohort, kind) ==
    LET cohort_df == cohort_rows(frame, cohort)
        valid == SelectSeq(cohort_df, valid_date)
        fellows == fellows_of(valid, cohort, kind)
    IN  [fellows_sales |-> [i \in DOMAIN fellows |->
                               [name |-> fellows[i].name, data |-> fellows[i].sales]],
         fellows_profit |-> [i \in DOMAIN fellows |->
                               [name |-> fellows[i].name, data |-> fellows[i].profit]],
         jobs_bar |-> jobs_bar_of(valid),
         jobs_table |-> jobs_table_of(cohort_df, cohort, kind),
         investments_table |-> investments_table_of(cohort_df),
         reach |-> reach_of(valid),
         disaggregation |-> disaggregation_of(cohort_df, cohort, kind)]

\* the dtype of df['Date']: datetime64, or object when the column holds a sentinel
\* date and the build keeps datetimes in nanoseconds, whose range excludes it
date_dtype(frame, unit) ==
    IF unit = "ns" /\ \E i \in DOMAIN frame : frame[i].Date = DateMin
    THEN "object"
    ELSE "datetime64"

\* the cohort-detail section reads valid['Date'].dt: with a sentinel date in the
\* frame the Date column is of dtype object on a pandas that keeps datetimes in
\* nanoseconds, and .dt then raises once a cohort has a row with a real date
dt_accessor_raises(frame, unit) ==
    /\ date_dtype(frame, unit) = "object"
    /\ \E i \in DOMAIN frame : frame[i].Date # DateMin

\* the aggregates over the venture loop (venture_data, latest), the cohort loop
\* (cohort_summaries) and the frame, and the dictionary calculate_kpis returns
kpi_report(frame, keys, cohorts, venture_data, cohort_summaries, latest, kind) ==
    LET all_sales_growth ==
            numbers_of([i \in DOMAIN venture_data |-> venture_data[i].SalesGrowth])
        all_profit_growth ==
            numbers_of([i \in DOMAIN venture_data |-> venture_data[i].ProfitGrowth])
        total_net_jobs == Sum([i \in DOMAIN venture_data |-> venture_data[i].LatestJobs])
        grand_total_sales == Sum([i \in DOMAIN venture_data |-> venture_data[i].TotalSales])
        flagged == SelectSeq(venture_data, HasFlags)
        red_flags == [i \in DOMAIN flagged |->
            [BusinessName |-> flagged[i].BusinessName,
             Cohort |-> flagged[i].Cohort,
             Flags |-> flagged[i].RedFlags]]
        cohort_growth_data == [i \in DOMAIN cohorts |-> growth_data(frame, cohort_summaries[i])]
        investment_ledger == [i \in DOMAIN keys |->
            ledger_entry(keys[i][1], keys[i][2],
                         business_rows(frame, keys[i][1], keys[i][2]))]
        prog_total_students == Sum([i \in DOMAIN latest |-> latest[i].total_students])
        jobs_summary ==
            [TotalJobs |-> int_of_halves(Sum([i \in DOMAIN latest |-> latest[i].total_jobs])),
             NewJobs |-> total_net_jobs,
             FemaleJobs |-> int_of_halves(Sum([i \in DOMAIN latest |-> latest[i].female_jobs])),
             YouthJobs |-> int_of_halves(Sum([i \in DOMAIN latest |-> latest[i].youth_jobs])),
             NewFemaleJobs |-> Sum([i \in DOMAIN venture_data |-> venture_data[i].NewFemaleJobs]),
             NewYouthJobs |-> Sum([i \in DOMAIN venture_data |-> venture_data[i].NewYouthJobs])]
        reach_summary ==
            [TotalSubscribers |-> Sum([i \in DOMAIN latest |-> latest[i].total_subscribers]),
             NewSubscribers |-> Sum([i \in DOMAIN venture_data |-> venture_data[i].NewSubscribers]),
             TotalSchools |-> Sum([i \in DOMAIN latest |-> latest[i].total_schools]),
             FemalePct |-> reach_pct(Sum([i \in DOMAIN latest |-> latest[i].female_students]),
                                     prog_total_students),
             RuralPct |-> reach_pct(Sum([i \in DOMAIN latest |-> latest[i].rural_students]),
                                    prog_total_students),
             DisabilityPct |-> reach_pct(Sum([i \in DOMAIN latest |-> latest[i].disability_students]),
                                         prog_total_students)]
        all_time_series == ts_concat(frame, keys, kind)
    IN  [kind |-> "dict",
         Program_Overview |->
            [Total_Sales_ZAR |-> grand_total_sales,
             Net_Jobs_Created |-> total_net_jobs,
             Average_Sales_Growth |-> round_median(all_sales_growth),
             Average_Profit_Growth |-> round_median(all_profit_growth),
             Program_TWA |-> program_twa(cohort_growth_data)],
         Venture_Data |-> venture_data,
         Cohort_Summaries |-> cohort_summaries,
         Investment_Ledger |-> investment_ledger,
         Jobs_Summary |-> jobs_summary,
         Reach_Summary |-> reach_summary,
         Time_Series |-> [cohort |-> cohort_time_series_of(all_time_series),
                          program |-> monthly_series(all_time_series)],
         Red_Flags |-> red_flags,
         Cohort_Detail |-> [c \in Range(cohorts) |-> cohort_detail_of(frame, c, kind)]]

calculate_kpis(frame0, kind, unit) ==
    IF ~has_columns(frame0) THEN Raised("KeyError")
    ELSE
    LET frame == with_date(frame0)
        keys == businesses(frame)
        cohorts == cohort_names(frame)
    IN  IF dt_accessor_raises(frame, unit) THEN Raised("AttributeError")
        ELSE kpi_report(frame, keys, cohorts,
                        [i \in DOMAIN keys |->
                            venture_kpis(keys[i][1], keys[i][2],
                                         business_rows(frame, keys[i][1], keys[i][2]), kind)],
                        [i \in DOMAIN cohorts |-> cohort_summary(frame, cohorts[i], kind)],
                        [i \in DOMAIN keys |->
                            venture_latest(business_rows(frame, keys[i][1], keys[i][2]), kind)],
                        kind)

----------------------------------------------------------------------------
(* One aggregation request: fetch_dashboard_data, then calculate_kpis *)

\* record counts a venture of the book may have in an input frame
Lens == {0, 1, 2} \cup ((MaxMonths - 2)..MaxMonths)
FewLens == {0, 1, MaxMonths - 1, MaxMonths}
TwoLens == {0, MaxMonths}

\* rows of one venture with the same Date exist
has_date_ties(frame) ==
    \E i \in DOMAIN frame : \E j \in DOMAIN frame :
        /\ i < j
        /\ frame[i].Cohort = frame[j].Cohort
        /\ frame[i].BusinessName = frame[j].BusinessName
        /\ parse_reporting_month(frame[i].ReportingMonth)
              = parse_reporting_month(frame[j].ReportingMonth)

Init ==
    /\ \E n11 \in Lens : \E n12 \in TwoLens : \E n13 \in TwoLens : \E n21 \in FewLens :
       \E extras \in {0, NumExtras} :
       \E labels \in {"monthly", "irregular"} :
       \E arrival \in {"oldest_first", "newest_first"} :
          df = InputFrame(n11, n12, n13, n21, extras, labels, arrival)
    \* builds differ only on a frame that has rows of equal Date
    /\ argsort \in (IF has_date_ties(df) THEN {"stable", "unstable"} ELSE {"stable"})
    /\ datetime_unit \in {"ns", "us"}
    /\ result = NotComputed
    /\ again = NotComputed
    /\ other = NotComputed
    /\ csv = NotComputed
    /\ series = <<>>
    /\ sg = NotComputed
    /\ pg = NotComputed

\* get_dashboard_data: kpi_data = calculate_kpis(raw_df)
CalculateKpis ==
    /\ result = NotComputed
    /\ result' = calculate_kpis(df, argsort, datetime_unit)
    /\ df' = with_date(df)
    /\ UNCHANGED <<series, sg, pg, argsort, datetime_unit, again, other, csv>>

\* calculate_kpis called once more on the collection the first call was given
CalculateKpisAgain ==
    /\ result # NotComputed
    /\ again = NotComputed
    /\ other = NotComputed
    /\ csv = NotComputed
    /\ again' = calculate_kpis(df, argsort, datetime_unit)
    /\ df' = with_date(df)
    /\ UNCHANGED <<series, sg, pg, argsort, datetime_unit, result, other, csv>>

\* a fetched record: the columns of all_data, without the 'Date' column
fetched(r) == [f \in (DOMAIN r) \ {"Date"} |-> r[f]]

\* a record collection with the records of one cohort of frame, in their order,
\* and in place of the records of the other cohort one report labelled 'Unknown'
OtherFrame(frame, cohort) ==
    LET kept == cohort_rows(frame, cohort)
        report == Row(3 - cohort, 1, 1, 0)
    IN  IF cohort = 1
        THEN [i \in DOMAIN kept |-> fetched(kept[i])] \o <<report>>
        ELSE <<report>> \o [i \in DOMAIN kept |-> fetched(kept[i])]

\* another request: the records of one cohort are as before, those of the other
\* cohort are not
CalculateKpisOther ==
    /\ result # NotComputed
    /\ again = NotComputed
    /\ other = NotComputed
    /\ csv = NotComputed
    /\ \E cohort \in {1, 2} :
          LET raw_df == OtherFrame(df, cohort)
          IN  other' = [cohort |-> cohort,
                        df |-> with_date(raw_df),
                        result |-> calculate_kpis(raw_df, argsort, datetime_unit)]
    /\ UNCHANGED <<series, sg, pg, df, argsort, datetime_unit, result, again, csv>>

\* f"{x:.2f}" of a whole amount: the amount written in hundredths
format_2f(x) == x * 100

\* {item['Business Name']: item for item in kpi_data['Investment_Ledger']}: per
\* business name, the last ledger entry of that name
investment_map(ledger) ==
    [name \in {ledger[i].BusinessName : i \in DOMAIN ledger} |->
        LET last == CHOOSE i \in DOMAIN ledger :
                        /\ ledger[i].BusinessName = name
                        /\ \A j \in DOMAIN ledger : ledger[j].BusinessName = name => j <= i
        IN  ledger[last]]

\* the rows written for kpi_data['Venture_Data'], one per venture
export_rows(kpi_data) ==
    LET inv_map == investment_map(kpi_data.Investment_Ledger)
        venture_data == kpi_data.Venture_Data
    IN  [i \in DOMAIN venture_data |->
            LET v == venture_data[i]
                \* investment_map.get(v['Business Name'], {})
                found == v.BusinessName \in DOMAIN inv_map
            IN  [BusinessName |-> v.BusinessName,
                 Cohort |-> v.Cohort,
                 TotalSales |-> format_2f(v.TotalSales),
                 SalesGrowth |-> v.SalesGrowth,
                 ProfitGrowth |-> v.ProfitGrowth,
                 NetJobsCreated |-> v.LatestJobs,
                 JobsPctChange |-> v.JobsPctChange,
                 FemaleJobs |-> v.FemaleJobs,
                 YouthJobs |-> v.YouthJobs,
                 NewFemaleJobs |-> v.NewFemaleJobs,
                 NewYouthJobs |-> v.NewYouthJobs,
                 TotalSubscribers |-> v.TotalSubscribers,
                 NewSubscribers |-> v.NewSubscribers,
                 TotalSchools |-> v.TotalSchools,
                 NetProfit |-> format_2f(IF found THEN inv_map[v.BusinessName].NetProfit ELSE 0),
                 Grants |-> format_2f(IF found THEN inv_map[v.BusinessName].Grants ELSE 0),
                 RedFlags |-> v.RedFlags]]

\* export_csv on the kpi_data of get_dashboard_data; an error of calculate_kpis
\* leaves the request without a file
ExportCsv ==
    /\ result # NotComputed
    /\ again = NotComputed
    /\ other = NotComputed
    /\ csv = NotComputed
    /\ csv' = IF result.kind = "dict"
              THEN [kind |-> "rows", rows |-> export_rows(result)]
              ELSE result
    /\ UNCHANGED <<series, sg, pg, df, argsort, datetime_unit, result, again, other>>

Next == CalculateKpis \/ CalculateKpisAgain \/ CalculateKpisOther \/ ExportCsv

Spec == Init /\ [][Next]_vars

----------------------------------------------------------------------------
(* Properties of the tiered growth helpers (specification SpecGrowth) *)

Computed(x) == x # NotComputed

\* window length of the tiers that compare first k with last k
WindowLen(n) == IF n <= 11 THEN 3 ELSE IF n <= 17 THEN 6 ELSE 12

\* baseline and recent value of a series of n >= 6 points, as exact fractions
Baseline(s) == mean(SubSeq(s, 1, WindowLen(Len(s))))
Recent(s) ==
    IF Len(s) \in 18..23
    THEN [num |-> 12 * Sum(SubSeq(s, 13, Len(s))), den |-> Len(s) - 12]
    ELSE mean(SubSeq(s, Len(s) - WindowLen(Len(s)) + 1, Len(s)))

\* numerator of recent - baseline over the common positive denominator
GrowthNum(s) == Recent(s).num * Baseline(s).den - Baseline(s).num * Recent(s).den

\* t tenths is a nearest tenth to 100 * num / den (den # 0)
NearestTenth(t, num, den) == 2 * Abs(t * den - 1000 * num) <= Abs(den)

\* C1: a series of fewer than 6 points gets the "Insufficient Data" marker from
\* both helpers, whatever its values
C1_InsufficientBelowSix ==
    Len(series) < 6 =>
        /\ Computed(sg) => sg = InsufficientData
        /\ Computed(pg) => pg = InsufficientData

C1_Witness ==
    /\ Len(series) = 5
    /\ series[1] # 0
    /\ series[5] # series[1]
    /\ sg = InsufficientData
    /\ pg = InsufficientData

\* C2: for n in 6..11, 12..17 and n >= 24 both helpers compare the mean of the
\* first k points with the mean of the last k points, k = 3, 6, 12
C2_FirstLastWindows ==
    LET n == Len(series)
        k == WindowLen(n)
        first == mean(SubSeq(series, 1, k))
        last == mean(SubSeq(series, n - k + 1, n))
    IN  (n \in 6..17 \/ n >= 24) =>
            /\ Computed(sg) => sg = sales_formula(first, last)
            /\ Computed(pg) => pg = profit_formula(first, last)

C2_Witness ==
    /\ Len(series) = 11
    /\ Computed(sg)
    /\ Computed(pg)
    /\ sg # sales_formula(mean(SubSeq(series, 1, 6)), mean(SubSeq(series, 6, 11)))
    /\ pg # profit_formula(mean(SubSeq(series, 1, 6)), mean(SubSeq(series, 6, 11)))

\* C3: for n in 18..23 both helpers compare the mean of the first 12 points with
\* (sum of the points after the first 12) / (n - 12) * 12; n = 17 and n = 24 use
\* the first-k / last-k rule instead
C3_ResidualTier ==
    LET n == Len(series)
        first12 == mean(SubSeq(series, 1, 12))
        runrate == [num |-> 12 * Sum(SubSeq(series, 13, n)), den |-> n - 12]
    IN  /\ n \in 18..23 =>
            /\ Computed(sg) => sg = sales_formula(first12, runrate)
            /\ Computed(pg) => pg = profit_formula(first12, runrate)
        /\ n = 17 =>
            /\ Computed(sg) => sg = sales_formula(mean(SubSeq(series, 1, 6)),
                                                  mean(SubSeq(series, 12, 17)))
            /\ Computed(pg) => pg = profit_formula(mean(SubSeq(series, 1, 6)),
                                                   mean(SubSeq(series, 12, 17)))
        /\ n = 24 =>
            /\ Computed(sg) => sg = sales_formula(first12, mean(SubSeq(series, 13, 24)))
            /\ Computed(pg) => pg = profit_formula(first12, mean(SubSeq(series, 13, 24)))

C3_Witness ==
    /\ Len(series) = 23
    /\ Computed(sg)
    /\ Computed(pg)
    /\ sg # sales_formula(mean(SubSeq(series, 1, 12)), mean(SubSeq(series, 12, 23)))
    /\ pg # profit_formula(mean(SubSeq(series, 1, 12)), mean(SubSeq(series, 13, 23)))

\* C4: with n >= 6 and a zero baseline both helpers return exactly 0.0, and no
\* helper ever returns the non-finite result of a division by zero
C4_ZeroBaseline ==
    /\ sg.kind # "nonfinite"
    /\ pg.kind # "nonfinite"
    /\ (Len(series) >= 6 /\ Baseline(series).num = 0) =>
            /\ Computed(sg) => sg = Numeric(0)
            /\ Computed(pg) => pg = Numeric(0)

C4_Witness ==
    /\ Len(series) >= 18
    /\ Baseline(series).num = 0
    /\ series[1] # 0
    /\ Recent(series).num # 0
    /\ sg = Numeric(0)
    /\ pg = Numeric(0)

\* C5: with n >= 6 and a non-zero baseline the profit result is
\* (recent - baseline) / |baseline| * 100 rounded to one decimal, hence has the
\* sign of recent - baseline; baseline -100 with recent -50 gives 50.0; the sales
\* result divides by the signed baseline
C5_ProfitAbsDenominator ==
    LET b == Baseline(series)
        r == Recent(series)
        d == GrowthNum(series)
    IN  (Len(series) >= 6 /\ b.num # 0) =>
            /\ Computed(pg) =>
                /\ pg.kind = "float"
                /\ NearestTenth(pg.val, d, r.den * Abs(b.num))
                /\ d >= 0 => pg.val >= 0
                /\ d <= 0 => pg.val <= 0
                /\ (Len(series) >= 24 /\ b.num = (0 - 100) * b.den
                        /\ r.num = (0 - 50) * r.den) => pg.val = 500
            /\ Computed(sg) =>
                /\ sg.kind = "float"
                /\ NearestTenth(sg.val, d, r.den * b.num)

C5_Witness ==
    /\ Len(series) >= 24
    /\ Baseline(series).num = (0 - 100) * Baseline(series).den
    /\ Recent(series).num = (0 - 50) * Recent(series).den
    /\ pg = Numeric(500)
    /\ sg = Numeric(0 - 500)

----------------------------------------------------------------------------
(* Properties of calculate_kpis (specification Spec) *)

Returned == result.kind = "dict"

\* positions in df of the records of venture (c, b)
RecordsOf(c, b) == {i \in DOMAIN df : df[i].Cohort = c /\ df[i].BusinessName = b}

\* the records of venture (c, b) with the earliest and with the latest date
EarliestOf(c, b) == {i \in RecordsOf(c, b) : \A j \in RecordsOf(c, b) : df[i].Date <= df[j].Date}
LatestOf(c, b) == {i \in RecordsOf(c, b) : \A j \in RecordsOf(c, b) : df[j].Date <= df[i].Date}

Ventures == IF Returned THEN Range(result.Venture_Data) ELSE {}
Summaries == IF Returned THEN Range(result.Cohort_Summaries) ELSE {}

HasFlag(v, flag) == \E i \in DOMAIN v.RedFlags : v.RedFlags[i] = flag

\* the k-th smallest entry of a non-empty list of numbers
Kth(vals, k) ==
    CHOOSE x \in Range(vals) :
        /\ Cardinality({i \in DOMAIN vals : vals[i] < x}) < k
        /\ k <= Cardinality({i \in DOMAIN vals : vals[i] <= x})

\* twice the median of a non-empty list of numbers
MedianTwice(vals) == Kth(vals, (Len(vals) + 1) \div 2) + Kth(vals, (Len(vals) \div 2) + 1)

\* x is "Insufficient Data" when vals is empty, else the median of vals rounded
\* to one decimal
IsMedianOf(x, vals) ==
    IF vals = <<>> THEN x = InsufficientData
    ELSE x.kind = "float" /\ Abs(2 * x.val - MedianTwice(vals)) <= 1

\* the numeric sales (profit) growth values reported in Venture_Data for a set of cohorts
ReportedSalesGrowth(cohorts) ==
    LET Keep(v) == v.Cohort \in cohorts /\ v.SalesGrowth.kind = "float"
        kept == SelectSeq(result.Venture_Data, Keep)
    IN  [i \in DOMAIN kept |-> kept[i].SalesGrowth.val]

ReportedProfitGrowth(cohorts) ==
    LET Keep(v) == v.Cohort \in cohorts /\ v.ProfitGrowth.kind = "float"
        kept == SelectSeq(result.Venture_Data, Keep)
    IN  [i \in DOMAIN kept |-> kept[i].ProfitGrowth.val]

AllCohorts == {df[i].Cohort : i \in DOMAIN df}

\* C6: a venture's 'Sales Growth %' and 'Profit Growth %' are the "Insufficient
\* Data" marker exactly when its record count ('Months') is below 6, a marker
\* raises no growth flag, and the programme medians are taken over the numeric
\* values only
C6_MarkerPreserved ==
    Returned =>
        /\ \A v \in Ventures :
            /\ v.Months = Cardinality(RecordsOf(v.Cohort, v.BusinessName))
            /\ v.SalesGrowth = InsufficientData <=> v.Months < 6
            /\ v.ProfitGrowth = InsufficientData <=> v.Months < 6
            /\ v.Months >= 6 => v.SalesGrowth.kind = "float" /\ v.ProfitGrowth.kind = "float"
            /\ v.Months < 6 => /\ ~HasFlag(v, "Negative Sales Growth")
                               /\ ~HasFlag(v, "Negative Profit Growth")
        /\ IsMedianOf(result.Program_Overview.Average_Sales_Growth,
                      ReportedSalesGrowth(AllCohorts))
        /\ IsMedianOf(result.Program_Overview.Average_Profit_Growth,
                      ReportedProfitGrowth(AllCohorts))
        /\ result.Program_Overview.Program_TWA = InsufficientData
              <=> \A s \in Summaries : s.MedianSalesGrowth = InsufficientData

C6_Witness ==
    /\ Returned
    /\ \E v \in Ventures : v.Months = 5 /\ v.SalesGrowth = InsufficientData
    /\ \E v \in Ventures : v.Months = 6 /\ v.SalesGrowth.kind = "float" /\ v.SalesGrowth.val > 0
    /\ \E v \in Ventures : v.Months < 6 /\ v.SalesGrowth = InsufficientData
    /\ result.Program_Overview.Average_Sales_Growth.kind = "float"
    /\ result.Program_Overview.Average_Sales_Growth.val > 0

\* t is x / 2 truncated toward zero
IsTruncatedHalf(t, x) ==
    IF x >= 0 THEN 2 * t <= x /\ x < 2 * t + 2
    ELSE 2 * t - 2 < x /\ x <= 2 * t

RECURSIVE SumLatestJobs(_)
SumLatestJobs(vs) == IF vs = <<>> THEN 0 ELSE Head(vs).LatestJobs + SumLatestJobs(Tail(vs))

\* C7: 'Latest Jobs' is 0 for a venture with one record, else the total-jobs value
\* of its last record by date minus that of its first record by date, truncated;
\* 'Net_Jobs_Created' is the sum of the per-venture values
C7_NetJobs ==
    Returned =>
        /\ \A v \in Ventures :
            LET c == v.Cohort
                b == v.BusinessName
            IN  IF Cardinality(RecordsOf(c, b)) = 1 THEN v.LatestJobs = 0
                ELSE \E f \in EarliestOf(c, b) : \E l \in LatestOf(c, b) :
                        /\ f # l
                        /\ IsTruncatedHalf(v.LatestJobs, df[l].TotalJobs - df[f].TotalJobs)
        /\ result.Program_Overview.Net_Jobs_Created = SumLatestJobs(result.Venture_Data)

C7_Witness ==
    /\ Returned
    /\ Len(df) >= 2
    /\ df[1].Date > df[2].Date
    /\ \E v \in Ventures : v.Months = 1 /\ v.LatestJobs = 0
    /\ \E v \in Ventures : v.Months >= 2 /\ v.LatestJobs < 0
    /\ \E v \in Ventures : v.Months >= 2 /\ v.LatestJobs > 0
    /\ result.Program_Overview.Net_Jobs_Created # 0

\* C8: a cohort's 'Median Sales Growth' ('Median Profit Growth') is the median,
\* rounded to one decimal, of the numeric growth values Venture_Data reports for
\* the ventures of that cohort, and "Insufficient Data" when there is none
C8_CohortMedian ==
    \A s \in Summaries :
        /\ IsMedianOf(s.MedianSalesGrowth, ReportedSalesGrowth({s.Cohort}))
        /\ IsMedianOf(s.MedianProfitGrowth, ReportedProfitGrowth({s.Cohort}))
        /\ (\A v \in Ventures : v.Cohort = s.Cohort => v.Months < 6)
              => /\ s.MedianSalesGrowth = InsufficientData
                 /\ s.MedianProfitGrowth = InsufficientData

C8_Witness ==
    /\ \E s \in Summaries :
          /\ Len(ReportedSalesGrowth({s.Cohort})) = 2
          /\ s.MedianSalesGrowth.kind = "float"
          /\ s.MedianSalesGrowth.val # ReportedSalesGrowth({s.Cohort})[1]
          /\ s.MedianSalesGrowth.val # ReportedSalesGrowth({s.Cohort})[2]
    /\ \E s \in Summaries :
          /\ s.Ventures >= 2
          /\ s.MedianSalesGrowth = InsufficientData
          /\ s.MedianProfitGrowth = InsufficientData

\* record count and venture count of a cohort in df
CohortRecords(c) == Cardinality({i \in DOMAIN df : df[i].Cohort = c})
CohortVentures(c) == Cardinality({df[i].BusinessName : i \in {j \in DOMAIN df : df[j].Cohort = c}})

SummaryOf(c) == CHOOSE s \in Summaries : s.Cohort = c
NumericCohorts == {c \in AllCohorts : SummaryOf(c).MedianSalesGrowth.kind = "float"}

RECURSIVE Prod(_)
Prod(s) == IF s = <<>> THEN 1 ELSE Head(s) * Prod(Tail(s))

\* sum of exposure(c) and of median(c) * exposure(c) over the cohorts with a
\* numeric median, both scaled by the product of the cohorts' venture counts
NumericSeq == SortedSeq(NumericCohorts)
VentureCounts == [i \in DOMAIN NumericSeq |-> CohortVentures(NumericSeq[i])]

ExposureSum ==
    Sum([i \in DOMAIN NumericSeq |->
            CohortRecords(NumericSeq[i]) * (Prod(VentureCounts) \div VentureCounts[i])])

WeightedSum ==
    Sum([i \in DOMAIN NumericSeq |->
            SummaryOf(NumericSeq[i]).MedianSalesGrowth.val * CohortRecords(NumericSeq[i])
                * (Prod(VentureCounts) \div VentureCounts[i])])

\* C9: Program_TWA is sum(median * exposure) / sum(exposure) rounded to one
\* decimal over the cohorts with a numeric median sales growth, the exposure
\* being the mean record count of all ventures of the cohort; medians 10.0 and
\* 20.0 with exposures 6 and 2 give 12.5; no numeric median gives the marker
C9_ProgramTWA ==
    Returned =>
        LET twa == result.Program_Overview.Program_TWA IN
        IF NumericCohorts = {} THEN twa = InsufficientData
        ELSE /\ twa.kind = "float"
             /\ 2 * Abs(twa.val * ExposureSum - WeightedSum) <= ExposureSum
             /\ (/\ NumericCohorts = {1, 2}
                 /\ SummaryOf(1).MedianSalesGrowth.val = 100
                 /\ SummaryOf(2).MedianSalesGrowth.val = 200
                 /\ CohortRecords(1) = 6 * CohortVentures(1)
                 /\ CohortRecords(2) = 2 * CohortVentures(2)) => twa.val = 125

C9_Witness ==
    /\ Returned
    /\ NumericCohorts = {1, 2}
    /\ SummaryOf(1).MedianSalesGrowth.val = 100
    /\ SummaryOf(2).MedianSalesGrowth.val = 200
    /\ CohortRecords(1) = 6 * CohortVentures(1)
    /\ CohortRecords(2) = 2 * CohortVentures(2)
    /\ \E v \in Ventures : v.Cohort = 2 /\ v.Months < 6
    /\ result.Program_Overview.Program_TWA = Numeric(125)

RECURSIVE NewSubscribersOf(_)
\* new student + new teacher subscribers summed over a set of records of df
NewSubscribersOf(S) ==
    IF S = {} THEN 0
    ELSE LET i == CHOOSE j \in S : TRUE
         IN  df[i].NewSubscribersStudents + df[i].NewSubscribersTeachers
                + NewSubscribersOf(S \ {i})

LowReach == "Low Learner Reach (<8,000/yr)"

\* C10: a venture carries 'Low Learner Reach (<8,000/yr)' exactly when the
\* student + teacher subscriber total of its last record by date is > 0 and
\* (new subscribers summed over its records / record count) * 12 < 8000,
\* whatever its growth flags are
C10_LowLearnerReach ==
    \A v \in Ventures :
        LET recs == RecordsOf(v.Cohort, v.BusinessName)
            low_rate == 12 * NewSubscribersOf(recs) < 8000 * Cardinality(recs)
        IN  \E l \in LatestOf(v.Cohort, v.BusinessName) :
                LET total == df[l].TotalSubscribersStudents + df[l].TotalSubscribersTeachers
                IN  /\ HasFlag(v, LowReach) <=> (total > 0 /\ low_rate)
                    /\ total = 0 => ~HasFlag(v, LowReach)

C10_Witness ==
    /\ \E v \in Ventures :
          /\ v.TotalSubscribers = 0
          /\ 12 * v.NewSubscribers < 8000 * v.Months
          /\ v.NewSubscribers > 0
          /\ ~HasFlag(v, LowReach)
    /\ \E v \in Ventures : HasFlag(v, LowReach) /\ ~HasFlag(v, "Negative Sales Growth")
    /\ \E v \in Ventures :
          /\ v.TotalSubscribers > 0
          /\ 12 * v.NewSubscribers = 8000 * v.Months
          /\ ~HasFlag(v, LowReach)
    /\ \E v \in Ventures : HasFlag(v, "Negative Sales Growth") /\ ~HasFlag(v, LowReach)

----------------------------------------------------------------------------
(* Properties of the sentinel date, the ordering and the input (specification Spec) *)

Called == result # NotComputed

\* positions in df of the records of the sentinel date, of a cohort, of a month
SentinelRecords == {i \in DOMAIN df : df[i].Date = DateMin}
RecordsOfCohort(c) == {i \in DOMAIN df : df[i].Cohort = c}
RecordsOfMonth(S, m) == {i \in S : df[i].Date = m}

\* the real (non-sentinel) dates carried by a set of records
RealMonths(S) == {df[i].Date : i \in S} \ {DateMin}

\* list is the ascending enumeration of the set S of integers
IsAscendingListOf(list, S) ==
    /\ Len(list) = Cardinality(S)
    /\ Range(list) = S
    /\ \A i \in DOMAIN list : \A j \in DOMAIN list : i < j => list[i] < list[j]

RECURSIVE SalesOver(_)
SalesOver(S) ==
    IF S = {} THEN 0
    ELSE LET i == CHOOSE j \in S : TRUE IN df[i].MonthlySales + SalesOver(S \ {i})

RECURSIVE ProfitOver(_)
ProfitOver(S) ==
    IF S = {} THEN 0
    ELSE LET i == CHOOSE j \in S : TRUE IN df[i].MonthlyNetProfit + ProfitOver(S \ {i})

RECURSIVE JobsOver(_)
JobsOver(S) ==
    IF S = {} THEN 0
    ELSE LET i == CHOOSE j \in S : TRUE IN df[i].TotalJobs + JobsOver(S \ {i})

RECURSIVE LearnersOver(_)
LearnersOver(S) ==
    IF S = {} THEN 0
    ELSE LET i == CHOOSE j \in S : TRUE
         IN  df[i].TotalSubscribersStudents + LearnersOver(S \ {i})

\* a chart series (months, sales, profit, jobs) is keyed by the real months of the
\* records S and holds, per month, the sums over the records of S of that month
IsSeriesOf(ts, S) ==
    /\ IsAscendingListOf(ts.months, RealMonths(S))
    /\ Len(ts.sales) = Len(ts.months)
    /\ Len(ts.profit) = Len(ts.months)
    /\ Len(ts.jobs) = Len(ts.months)
    /\ \A k \in DOMAIN ts.months :
          /\ ts.sales[k] = SalesOver(RecordsOfMonth(S, ts.months[k]))
          /\ ts.profit[k] = ProfitOver(RecordsOfMonth(S, ts.months[k]))
          /\ ts.jobs[k] = JobsOver(RecordsOfMonth(S, ts.months[k]))

\* the per-venture point lists of a cohort hold one point per real-dated record
\* of the venture and none for a venture without one
IsFellowsOf(fellows, c) ==
    /\ {fellows[i].name : i \in DOMAIN fellows}
          = {df[i].BusinessName : i \in RecordsOfCohort(c) \ SentinelRecords}
    /\ \A i \in DOMAIN fellows :
          /\ Len(fellows[i].data)
                = Cardinality(RecordsOf(c, fellows[i].name) \ SentinelRecords)
          /\ \A k \in DOMAIN fellows[i].data : fellows[i].data[k].x # DateMin

\* what the month-keyed outputs and the sums hold when df has sentinel records
SentinelHandling ==
    /\ IsSeriesOf(result.Time_Series.program, DOMAIN df)
    /\ DOMAIN result.Time_Series.cohort
          = {c \in AllCohorts : RealMonths(RecordsOfCohort(c)) # {}}
    /\ \A c \in DOMAIN result.Time_Series.cohort :
          IsSeriesOf(result.Time_Series.cohort[c], RecordsOfCohort(c))
    /\ DOMAIN result.Cohort_Detail = AllCohorts
    /\ \A c \in AllCohorts :
          LET detail == result.Cohort_Detail[c] IN
          /\ IsAscendingListOf(detail.jobs_bar.months, RealMonths(RecordsOfCohort(c)))
          /\ \A k \in DOMAIN detail.jobs_bar.months :
                2 * Abs(2 * detail.jobs_bar.total[k]
                    - JobsOver(RecordsOfMonth(RecordsOfCohort(c), detail.jobs_bar.months[k]))) <= 2
          /\ IsAscendingListOf(detail.reach.months, RealMonths(RecordsOfCohort(c)))
          /\ \A k \in DOMAIN detail.reach.months :
                detail.reach.total_learners[k]
                    = LearnersOver(RecordsOfMonth(RecordsOfCohort(c), detail.reach.months[k]))
          /\ IsFellowsOf(detail.fellows_sales, c)
          /\ IsFellowsOf(detail.fellows_profit, c)
    /\ \A v \in Ventures :
          LET recs == RecordsOf(v.Cohort, v.BusinessName) IN
          /\ v.Months = Cardinality(recs)
          /\ v.TotalSales = SalesOver(recs)
          /\ (recs \cap SentinelRecords # {} /\ Cardinality(recs) >= 2) =>
                \E f \in recs \cap SentinelRecords : \E l \in LatestOf(v.Cohort, v.BusinessName) :
                    /\ f # l
                    /\ IsTruncatedHalf(v.LatestJobs, df[l].TotalJobs - df[f].TotalJobs)
    /\ \A s \in Summaries :
          /\ s.TotalSales = SalesOver(RecordsOfCohort(s.Cohort))
          /\ s.TotalProfit = ProfitOver(RecordsOfCohort(s.Cohort))
    /\ result.Program_Overview.Total_Sales_ZAR = SalesOver(DOMAIN df)

\* C11: with a sentinel-dated record in the input, calculate_kpis returns its
\* result; the record adds no month key and no value to the Time_Series and
\* Cohort_Detail series, it is counted in the record count and in the venture,
\* cohort and program sums, and it stands first in the venture's ordered series
C11_SentinelExcluded ==
    (Called /\ SentinelRecords # {}) => (Returned /\ SentinelHandling)

\* the records of venture (c, b) ordered by date, records of the same date in
\* their order of arrival
ArrivalOrder(c, b) ==
    LET keys == SortedSeq({df[i].Date * (Len(df) + 1) + i : i \in RecordsOf(c, b)})
    IN  [k \in DOMAIN keys |-> keys[k] % (Len(df) + 1)]

\* C12: every per-venture metric is computed on the venture's records ordered by
\* date with records of the same date in arrival order: the growth windows, the
\* first and last record of the net jobs, the record before the last of the jobs
\* change and the last record of the subscriber total
C12_TiesKeepArrivalOrder ==
    Returned =>
        \A v \in Ventures :
            LET o == ArrivalOrder(v.Cohort, v.BusinessName)
                n == Len(o)
            IN  /\ v.SalesGrowth = _tiered_sales_growth([k \in DOMAIN o |-> df[o[k]].MonthlySales])
                /\ v.ProfitGrowth = _tiered_profit_growth([k \in DOMAIN o |-> df[o[k]].MonthlyNetProfit])
                /\ v.TotalSubscribers = df[o[n]].TotalSubscribersStudents
                                            + df[o[n]].TotalSubscribersTeachers
                /\ n >= 2 =>
                      /\ IsTruncatedHalf(v.LatestJobs, df[o[n]].TotalJobs - df[o[1]].TotalJobs)
                      /\ df[o[n - 1]].TotalJobs # 0 =>
                            /\ v.JobsPctChange.kind = "float"
                            /\ NearestTenth(v.JobsPctChange.val,
                                            df[o[n]].TotalJobs - df[o[n - 1]].TotalJobs,
                                            df[o[n - 1]].TotalJobs)

C14_InputUnchanged == [][df' = df]_vars

\* the businesses of cohort c in df
BusinessesOf(c) == {df[i].BusinessName : i \in RecordsOfCohort(c)}

RECURSIVE LatestJobsSums(_, _)
\* the sums, over the businesses B of cohort c, of the total-jobs value of a
\* record of the venture's latest date
LatestJobsSums(c, B) ==
    IF B = {} THEN {0}
    ELSE LET b == CHOOSE x \in B : TRUE
         IN  {df[l].TotalJobs + rest : l \in LatestOf(c, b), rest \in LatestJobsSums(c, B \ {b})}

\* sum of 'Total Subscribers' over the Venture_Data entries of cohort c
VentureSubscribers(c) ==
    LET OfCohort(v) == v.Cohort = c
        vs == SelectSeq(result.Venture_Data, OfCohort)
    IN  Sum([i \in DOMAIN vs |-> vs[i].TotalSubscribers])

\* C15: a cohort's 'Total Jobs' is the sum over its ventures of the total-jobs
\* value of the venture's last record by date, and its 'Total Learners' is the
\* sum of the ventures' 'Total Subscribers' of Venture_Data (the student +
\* teacher totals of the last record by date), whatever the arrival order
C15_CohortLatestSums ==
    \A s \in Summaries :
        /\ s.TotalJobs \in LatestJobsSums(s.Cohort, BusinessesOf(s.Cohort))
        /\ s.TotalLearners = VentureSubscribers(s.Cohort)

----------------------------------------------------------------------------
(* Properties of the venture identity and of the cohorts (specification Spec) *)

\* the (cohort, business name) pairs of the records of df
Pairs == {<<df[i].Cohort, df[i].BusinessName>> : i \in DOMAIN df}

RECURSIVE GrantsOver(_)
GrantsOver(S) ==
    IF S = {} THEN 0
    ELSE LET i == CHOOSE j \in S : TRUE IN df[i].GrantsValue + GrantsOver(S \ {i})

\* C16: Venture_Data and Investment_Ledger hold exactly one entry per (cohort,
\* business name) pair of the input, each computed from exactly the records of
\* that pair, so a business name under two cohorts has two entries; the
\* 'Ventures' counts of the cohorts add up to the number of Venture_Data entries
C16_VentureIdentity ==
    Returned =>
        /\ Len(result.Venture_Data) = Cardinality(Pairs)
        /\ {<<v.Cohort, v.BusinessName>> : v \in Ventures} = Pairs
        /\ \A v \in Ventures :
              /\ v.Months = Cardinality(RecordsOf(v.Cohort, v.BusinessName))
              /\ v.TotalSales = SalesOver(RecordsOf(v.Cohort, v.BusinessName))
              /\ v.NewSubscribers = NewSubscribersOf(RecordsOf(v.Cohort, v.BusinessName))
        /\ Len(result.Investment_Ledger) = Cardinality(Pairs)
        /\ {<<e.Cohort, e.BusinessName>> : e \in Range(result.Investment_Ledger)} = Pairs
        /\ \A e \in Range(result.Investment_Ledger) :
              /\ e.TotalSales = SalesOver(RecordsOf(e.Cohort, e.BusinessName))
              /\ e.NetProfit = ProfitOver(RecordsOf(e.Cohort, e.BusinessName))
              /\ e.Grants = GrantsOver(RecordsOf(e.Cohort, e.BusinessName))
        /\ Sum([i \in DOMAIN result.Cohort_Summaries |-> result.Cohort_Summaries[i].Ventures])
              = Len(result.Venture_Data)
        /\ \A s \in Summaries : s.Ventures = Cardinality(BusinessesOf(s.Cohort))

C16_Witness ==
    /\ Returned
    /\ \E v \in Ventures : \E w \in Ventures :
          /\ v.BusinessName = w.BusinessName
          /\ v.Cohort # w.Cohort
          /\ v.Months >= 2
          /\ w.Months >= 2
          /\ v.TotalSales # w.TotalSales
    /\ \E e \in Range(result.Investment_Ledger) : \E f \in Range(result.Investment_Ledger) :
          /\ e.BusinessName = f.BusinessName
          /\ e.Cohort # f.Cohort
          /\ e.Grants > 0
          /\ f.Grants > 0
          /\ e.Grants # f.Grants
    /\ Len(result.Cohort_Summaries) = 2
    /\ Len(result.Venture_Data) >= 4

\* what a call's outcome holds of cohort c: its Cohort_Summaries entry, its
\* Cohort_Detail, its Time_Series series and the Venture_Data and Red_Flags
\* entries of its ventures; of a call that raised, the error
CohortView(res, c) ==
    IF res.kind # "dict" THEN res
    ELSE LET OfCohort(x) == x.Cohort = c
         IN  [summary |-> SelectSeq(res.Cohort_Summaries, OfCohort),
              detail |-> IF c \in DOMAIN res.Cohort_Detail
                         THEN <<res.Cohort_Detail[c]>> ELSE <<>>,
              series |-> IF c \in DOMAIN res.Time_Series.cohort
                         THEN <<res.Time_Series.cohort[c]>> ELSE <<>>,
              ventures |-> SelectSeq(res.Venture_Data, OfCohort),
              flags |-> SelectSeq(res.Red_Flags, OfCohort)]

\* C17: two record collections that hold the same records of a cohort in the
\* same order give identical outputs for that cohort (summary, detail, series,
\* venture entries and flags), whatever the records of the other cohort are
C17_CohortsIndependent ==
    (other # NotComputed /\ RecordsOfCohort(other.cohort) # {}) =>
        CohortView(other.result, other.cohort) = CohortView(result, other.cohort)

\* the ventures of df with at least 6 records
GrowthVentures == {p \in Pairs : Cardinality(RecordsOf(p[1], p[2])) >= 6}

\* C18: the program's 'Average_Sales_Growth_%' ('Average_Profit_Growth_%') is
\* the median, rounded to one decimal, of the numeric growth values of the
\* ventures of all cohorts: one value per venture with 6 or more records, none
\* (and no 0) for a venture with "Insufficient Data"
C18_ProgramMedian ==
    Returned =>
        /\ Len(ReportedSalesGrowth(AllCohorts)) = Cardinality(GrowthVentures)
        /\ Len(ReportedProfitGrowth(AllCohorts)) = Cardinality(GrowthVentures)
        /\ IF GrowthVentures = {}
           THEN /\ result.Program_Overview.Average_Sales_Growth = InsufficientData
                /\ result.Program_Overview.Average_Profit_Growth = InsufficientData
           ELSE /\ result.Program_Overview.Average_Sales_Growth.kind = "float"
                /\ Abs(2 * result.Program_Overview.Average_Sales_Growth.val
                          - MedianTwice(ReportedSalesGrowth(AllCohorts))) <= 1
                /\ result.Program_Overview.Average_Profit_Growth.kind = "float"
                /\ Abs(2 * result.Program_Overview.Average_Profit_Growth.val
                          - MedianTwice(ReportedProfitGrowth(AllCohorts))) <= 1

C18_Witness ==
    /\ Returned
    /\ Cardinality(GrowthVentures) >= 2
    /\ Cardinality(Pairs \ GrowthVentures) > Cardinality(GrowthVentures)
    /\ AllCohorts = {1, 2}
    /\ \E v \in Ventures : v.Cohort = 1 /\ v.SalesGrowth.kind = "float"
    /\ \E v \in Ventures : v.Cohort = 2 /\ v.SalesGrowth.kind = "float"
    /\ result.Program_Overview.Average_Sales_Growth.kind = "float"
    /\ result.Program_Overview.Average_Sales_Growth.val > 0
    /\ result.Program_Overview.Average_Profit_Growth.kind = "float"
    /\ result.Program_Overview.Average_Profit_Growth.val # 0

\* C19: on a record collection of zero records calculate_kpis returns the full
\* structure: zero totals, empty Venture_Data, Cohort_Summaries,
\* Investment_Ledger, Red_Flags, Cohort_Detail and time-series lists, reach
\* percentages 0 and "Insufficient Data" for both growth figures and Program_TWA
C19_EmptyInput ==
    (Called /\ Len(df) = 0) =>
        /\ Returned
        /\ result.Program_Overview.Total_Sales_ZAR = 0
        /\ result.Program_Overview.Net_Jobs_Created = 0
        /\ result.Program_Overview.Average_Sales_Growth = InsufficientData
        /\ result.Program_Overview.Average_Profit_Growth = InsufficientData
        /\ result.Program_Overview.Program_TWA = InsufficientData
        /\ result.Venture_Data = <<>>
        /\ result.Cohort_Summaries = <<>>
        /\ result.Investment_Ledger = <<>>
        /\ result.Red_Flags = <<>>
        /\ DOMAIN result.Cohort_Detail = {}
        /\ DOMAIN result.Time_Series.cohort = {}
        /\ result.Time_Series.program.months = <<>>
        /\ result.Time_Series.program.sales = <<>>
        /\ result.Time_Series.program.profit = <<>>
        /\ result.Time_Series.program.jobs = <<>>
        /\ result.Jobs_Summary.TotalJobs = 0
        /\ result.Jobs_Summary.NewJobs = 0
        /\ result.Reach_Summary.TotalSubscribers = 0
        /\ result.Reach_Summary.FemalePct.val = 0
        /\ result.Reach_Summary.RuralPct.val = 0
        /\ result.Reach_Summary.DisabilityPct.val = 0

\* C20: Program_TWA, 'Average_Sales_Growth_%' and 'Average_Profit_Growth_%' are
\* "Insufficient Data" together, exactly when no venture of the input has 6 or
\* more records; when a cohort has a numeric median the exposure sum that
\* divides the TWA is > 0 and the TWA is a number
C20_ProgramFiguresTogether ==
    Returned =>
        /\ result.Program_Overview.Program_TWA = InsufficientData
              <=> result.Program_Overview.Average_Sales_Growth = InsufficientData
        /\ result.Program_Overview.Average_Sales_Growth = InsufficientData
              <=> GrowthVentures = {}
        /\ result.Program_Overview.Average_Profit_Growth = InsufficientData
              <=> GrowthVentures = {}
        /\ GrowthVentures # {} =>
              /\ result.Program_Overview.Program_TWA.kind = "float"
              /\ result.Program_Overview.Average_Sales_Growth.kind = "float"
              /\ result.Program_Overview.Average_Profit_Growth.kind = "float"
        /\ NumericCohorts # {} <=> GrowthVentures # {}
        /\ NumericCohorts # {} => ExposureSum > 0

C20_Witness ==
    /\ Returned
    /\ Cardinality(NumericCohorts) = 1
    /\ Cardinality(AllCohorts) = 2
    /\ \A c \in NumericCohorts : SummaryOf(c).MedianSalesGrowth.val = 0
    /\ result.Program_Overview.Program_TWA = Numeric(0)
    /\ result.Program_Overview.Average_Sales_Growth = Numeric(0)
    /\ Cardinality(Pairs \ GrowthVentures) >= 2

----------------------------------------------------------------------------
(* Properties of the CSV export (specification Spec) *)

\* the Investment_Ledger entry of venture (c, b)
LedgerEntryOf(c, b) ==
    CHOOSE e \in Range(result.Investment_Ledger) : e.Cohort = c /\ e.BusinessName = b

\* C21: every row of the export carries the 'Net Profit (R)' and the 'Grants &
\* Investments (R)' of the Investment_Ledger entry of the row's own (cohort,
\* business name) venture, also when a business name occurs under two cohorts
C21_ExportRowsOwnLedger ==
    csv.kind = "rows" =>
        /\ Len(csv.rows) = Len(result.Venture_Data)
        /\ \A i \in DOMAIN csv.rows :
              LET row == csv.rows[i]
                  e == LedgerEntryOf(row.Cohort, row.BusinessName)
              IN  /\ row.NetProfit = 100 * e.NetProfit
                  /\ row.Grants = 100 * e.Grants

====
